---- MODULE Spec2Model ----
(***************************************************************************)
(* SplitBill-AI: the session controller of src/App.tsx (receipt, item-to-  *)
(* people assignments, chat transcript, the two busy flags), the file      *)
(* intake of the FileUpload component, the chat form of ChatInterface.tsx  *)
(* and the two asynchronous calls of src/services/geminiService.ts that    *)
(* the controller awaits; and the audit of src/components/Summary.tsx with *)
(* the call it awaits.                                                     *)
(*                                                                         *)
(* There are two specifications. Spec is the controller in sessions in     *)
(* which no audit is asked for, with the interpreter answering from all of *)
(* InterpreterAction. AuditSpec adds the audit button, the modal and the   *)
(* audit call, with the interpreter answering as in the worked scenario.   *)
(* The audit steps write the state of Summary only and no step of the      *)
(* controller reads it, so a run with audits looks to the controller like  *)
(* the same run without them.                                              *)
(*                                                                         *)
(* Item ids are the short numeric strings the extraction schema asks for   *)
(* ('1', '2'); they are written here as the numbers they spell, which is   *)
(* also the order in which a JavaScript object enumerates such keys.       *)
(* A nullable value is a sequence of length 0 (null) or 1.                 *)
(*                                                                         *)
(* The settlement of src/components/Summary.tsx is computed on amounts in  *)
(* cents, as exact fractions: a JavaScript number is the fraction it stands *)
(* for, so equalities between amounts are those of exact arithmetic, to    *)
(* which the binary64 results of the code agree up to rounding. A division *)
(* by zero gives Infinity or NaN as in JavaScript.                         *)
(***************************************************************************)
EXTENDS Integers, Sequences, FiniteSets, TLC

\* ------------------------------------------------------------------ bounds

\* Longest people list and longest item id list of an action the reducer is
\* checked on.
MaxPeople == 2
MaxItemIds == 2
\* Longest batch (ChatResponse.assignments) returned by the interpreter.
MaxBatch == 2
\* The chat form stops accepting commands once the transcript is this long.
MaxMessages == 5
\* Most receipt extractions in flight at once (drag-and-drop is not gated).
MaxParseCalls == 2
\* Audits asked for while Summary stays mounted.
MaxAudits == 2

\* Longest assignee list of the stores the settlement is checked on.
MaxAssignees == 3

\* ------------------------------------------------------------------ inputs

People == {"Tom", "Ana"}

\* Ids the interpreter may name: those of the receipts below; id 2 is not an
\* item of the one-item receipt.
ItemIdUniverse == {1, 2}

SeqsUpTo(S, n) == UNION {[1..k -> S] : k \in 0..n}

Range(s) == {s[i] : i \in 1..Len(s)}

\* The receipt of the worked scenario, amounts in cents.
ScenarioReceipt ==
  [items |-> << [id |-> 1, name |-> "Burger", price |-> 1000, quantity |-> 1],
                [id |-> 2, name |-> "Fries", price |-> 600, quantity |-> 1] >>,
   subtotal |-> 1600, tax |-> 160, tip |-> 320, total |-> 2080, currency |-> "$"]

\* A receipt with a single item.
SingleReceipt ==
  [items |-> << [id |-> 1, name |-> "Pizza", price |-> 900, quantity |-> 1] >>,
   subtotal |-> 900, tax |-> 90, tip |-> 0, total |-> 990, currency |-> "$"]

\* An inconsistent extraction: a priced item, two units of it, under a
\* subtotal of 0 with tax and tip.
DegenerateReceipt ==
  [items |-> << [id |-> 1, name |-> "Soda", price |-> 305, quantity |-> 2] >>,
   subtotal |-> 0, tax |-> 30, tip |-> 50, total |-> 80, currency |-> "$"]

\* A receipt with an item that costs nothing.
FreeItemReceipt ==
  [items |-> << [id |-> 1, name |-> "Burger", price |-> 1000, quantity |-> 1],
                [id |-> 2, name |-> "Water", price |-> 0, quantity |-> 1] >>,
   subtotal |-> 1000, tax |-> 100, tip |-> 200, total |-> 1300, currency |-> "$"]

\* What the extraction model may return as ReceiptData.
Receipts == {ScenarioReceipt, SingleReceipt, DegenerateReceipt, FreeItemReceipt}

\* AssignmentAction (src/types.ts): every action the reducer is checked on,
\* with empty, repeated and reordered people and item ids.
AssignmentAction ==
  [itemIds : SeqsUpTo(ItemIdUniverse, MaxItemIds),
   people : SeqsUpTo(People, MaxPeople),
   action : {"assign", "unassign"}]

\* The actions the interpreter returns in the runs explored.
InterpreterAction ==
  [itemIds : {<<i>> : i \in ItemIdUniverse},
   people : {<<"Tom">>, <<"Ana">>, <<"Tom", "Ana">>},
   action : {"assign", "unassign"}]

\* A batch about one group of people: every action names the same people.
OneGroup(batch) == \A m, n \in 1..Len(batch) : batch[m].people = batch[n].people

\* ChatResponse (src/types.ts): the answers of the interpreter in the runs
\* explored, one command being about one group of people.
ChatResponse ==
  [reply : {"done"},
   assignments : {b \in SeqsUpTo(InterpreterAction, MaxBatch) : OneGroup(b)}]

\* ChatMessage (src/types.ts) without its id and timestamp.
UserMsg == [role |-> "user", text |-> "command"]

AnalyzedMsg == [role |-> "assistant", text |-> "analyzed"]

ApologyMsg == [role |-> "assistant", text |-> "apology"]

ReplyMsg(response) == [role |-> "assistant", text |-> response.reply]

Null == <<>>

Some(x) == <<x>>

\* ------------------------------------------------------------------ state

VARIABLES
  receiptData,   \* App state: Null or Some(ReceiptData)
  assignments,   \* App state: item id -> list of person names
  messages,      \* App state: the chat transcript
  isProcessing,  \* App state: a command is being processed
  isParsing,     \* App state: a receipt is being extracted
  chatCalls,     \* processChatCommand promises the controller is awaiting
  parseCalls,    \* parseReceiptImage promises the controller is awaiting:
                 \* how many are pending, resolved, rejected
  isAuditing,    \* Summary state: an audit is being made
  auditResult,   \* Summary state: Null or Some(report), a report being its
                 \* text and the audit it is the result of
  showAuditModal,\* Summary state: the audit modal is shown
  auditCalls,    \* auditSplit promises that handleAudit is awaiting, in the
                 \* order in which they were started
  auditsStarted  \* how many audits the mounted Summary has started: the
                 \* n-th audit is known by its number n

\* The state of the Summary component and the calls it awaits.
summaryVars == <<isAuditing, auditResult, showAuditModal, auditCalls, auditsStarted>>

vars == <<receiptData, assignments, messages, isProcessing, isParsing,
          chatCalls, parseCalls, summaryVars>>

\* The empty object {}.
EmptyAssignments == [k \in {} |-> <<>>]

Remove(s, i) == [j \in 1..(Len(s) - 1) |-> IF j < i THEN s[j] ELSE s[j + 1]]

\* ------------------------------------------------------- assignment reducer

\* A slip: Array.from(s), the Set left out.
DedupOff(s) == s

\* Array.from(new Set(s)): first occurrences, in insertion order.
RECURSIVE Dedup(_)
Dedup(s) ==
  IF s = <<>> THEN <<>>
  ELSE LET front == Dedup(SubSeq(s, 1, Len(s) - 1))
           last == s[Len(s)]
       IN IF last \in Range(front) THEN front ELSE Append(front, last)

\* next[itemId] || []
currentAssignees(next, itemId) ==
  IF itemId \in DOMAIN next THEN next[itemId] ELSE <<>>

\* A slip: the value is written to every key of the object.
SetKeyAll(next, itemId, value) ==
  [k \in DOMAIN next \cup {itemId} |-> value]

\* next[itemId] = value
SetKey(next, itemId, value) ==
  [k \in DOMAIN next \cup {itemId} |-> IF k = itemId THEN value ELSE next[k]]

\* A slip: the people are concatenated without the Set.
assignBranchNoSet(current, people) == current \o people

\* The assign branch.
assignBranch(current, people) == Dedup(current \o people)

\* A slip: only the first person named is removed.
unassignBranchFirst(current, people) ==
  SelectSeq(current, LAMBDA p : people = <<>> \/ p # people[1])

\* The unassign branch.
unassignBranch(current, people) ==
  SelectSeq(current, LAMBDA p : p \notin Range(people))

\* A slip: the unassign branch is missing.
applyItemAssignOnly(next, op, itemId) ==
  IF op.action = "assign"
  THEN SetKey(next, itemId, assignBranch(currentAssignees(next, itemId), op.people))
  ELSE next

\* A slip: assign toggles, a person already on the item is taken off it.
applyItemToggle(next, op, itemId) ==
  IF op.action = "assign"
  THEN SetKey(next, itemId,
              LET current == currentAssignees(next, itemId)
              IN unassignBranch(current, op.people)
                   \o unassignBranch(Dedup(op.people), current))
  ELSE IF op.action = "unassign"
  THEN SetKey(next, itemId, unassignBranch(currentAssignees(next, itemId), op.people))
  ELSE next

\* The body of op.itemIds.forEach for one item id.
applyItem(next, op, itemId) ==
  IF op.action = "assign"
  THEN SetKey(next, itemId, assignBranch(currentAssignees(next, itemId), op.people))
  ELSE IF op.action = "unassign"
  THEN SetKey(next, itemId, unassignBranch(currentAssignees(next, itemId), op.people))
  ELSE next

\* op.itemIds.forEach(...)
RECURSIVE applyOp(_, _, _)
applyOp(next, op, ids) ==
  IF ids = <<>> THEN next
  ELSE applyOp(applyItem(next, op, Head(ids)), op, Tail(ids))

\* A slip: the batch is folded from its last action to its first.
RECURSIVE applyActionsBackwards(_, _)
applyActionsBackwards(prev, ops) ==
  IF ops = <<>> THEN prev
  ELSE applyOp(applyActionsBackwards(prev, Tail(ops)), Head(ops), Head(ops).itemIds)

\* The setAssignments updater: response.assignments.forEach(...) on a copy of prev.
RECURSIVE applyActions(_, _)
applyActions(prev, ops) ==
  IF ops = <<>> THEN prev
  ELSE applyActions(applyOp(prev, Head(ops), Head(ops).itemIds), Tail(ops))

\* Array.from(new Set(Object.values(assignments).flat())), keys in ascending order.
RECURSIVE flatValues(_, _)
flatValues(a, keys) ==
  IF keys = {} THEN <<>>
  ELSE LET k == CHOOSE x \in keys : \A y \in keys : x <= y
       IN a[k] \o flatValues(a, keys \ {k})

\* A slip: the people of the current render's messages are not deduplicated.
existingPeopleFlat(a) == flatValues(a, DOMAIN a)

existingPeople(a) == Dedup(flatValues(a, DOMAIN a))

\* ------------------------------------------------------ settlement calculator

RECURSIVE GCD(_, _)
GCD(a, b) == IF b = 0 THEN a ELSE GCD(b, a % b)

Abs(x) == IF x < 0 THEN -x ELSE x

Sign(x) == IF x < 0 THEN -1 ELSE IF x > 0 THEN 1 ELSE 0

\* The number n/d in lowest terms, d > 0; a zero denominator is kept for what
\* JavaScript gives on a division by zero: Infinity, -Infinity or NaN (0/0).
Frac(n, d) ==
  IF d = 0 THEN [n |-> Sign(n), d |-> 0]
  ELSE LET g == GCD(Abs(n), Abs(d))
       IN [n |-> (Sign(d) * n) \div g, d |-> Abs(d) \div g]

Whole(k) == Frac(k, 1)

NaN == Frac(0, 0)

\* a + b
Plus(a, b) ==
  IF a.d = 0 /\ b.d = 0 THEN (IF a.n = b.n THEN a ELSE NaN)
  ELSE Frac(a.n * b.d + b.n * a.d, a.d * b.d)

\* a * b
Times(a, b) == Frac(a.n * b.n, a.d * b.d)

\* 1 / b
Recip(b) ==
  IF b.n = 0 THEN Frac(IF b.d = 0 THEN 0 ELSE 1, 0)
  ELSE Frac(Sign(b.n) * b.d, Abs(b.n))

\* a / b
Over(a, b) == Times(a, Recip(b))

\* peopleMap.set(personName, {name, subtotal: 0, tax: 0, tip: 0, total: 0, items: []})
newPerson(personName) ==
  [name |-> personName, subtotal |-> Whole(0), tax |-> Whole(0),
   tip |-> Whole(0), total |-> Whole(0), items |-> <<>>]

\* peopleMap.has(personName); the Map keeps its keys in insertion order.
has(peopleMap, personName) ==
  \E i \in 1..Len(peopleMap) : peopleMap[i].name = personName

\* A slip: person.subtotal = pricePerPerson.
addShareOverwrite(peopleMap, personName, pricePerPerson, item) ==
  LET map == IF has(peopleMap, personName) THEN peopleMap
             ELSE Append(peopleMap, newPerson(personName))
  IN [i \in 1..Len(map) |->
        IF map[i].name = personName
        THEN [map[i] EXCEPT !.subtotal = pricePerPerson,
                            !.items = Append(@, item)]
        ELSE map[i]]

\* A slip: a person seen for the first time is entered in front of the others.
addShareInFront(peopleMap, personName, pricePerPerson, item) ==
  LET map == IF has(peopleMap, personName) THEN peopleMap
             ELSE <<newPerson(personName)>> \o peopleMap
  IN [i \in 1..Len(map) |->
        IF map[i].name = personName
        THEN [map[i] EXCEPT !.subtotal = Plus(@, pricePerPerson),
                            !.items = Append(@, item)]
        ELSE map[i]]

\* The body of assignedTo.forEach: the person is entered on first sight, their
\* subtotal grows by the share and the item joins their items.
addShare(peopleMap, personName, pricePerPerson, item) ==
  LET map == IF has(peopleMap, personName) THEN peopleMap
             ELSE Append(peopleMap, newPerson(personName))
  IN [i \in 1..Len(map) |->
        IF map[i].name = personName
        THEN [map[i] EXCEPT !.subtotal = Plus(@, pricePerPerson),
                            !.items = Append(@, item)]
        ELSE map[i]]

\* assignedTo.forEach(...)
RECURSIVE shareOut(_, _, _, _)
shareOut(peopleMap, names, price, item) ==
  IF names = <<>> THEN peopleMap
  ELSE shareOut(addShare(peopleMap, Head(names), price, item), Tail(names), price, item)

\* A slip: the price is taken per unit.
pricePerPersonByUnit(item, splitCount) ==
  Over(Over(Whole(item.price), Whole(item.quantity)), Whole(splitCount))

\* A slip: the price is not divided among the assignees.
pricePerPersonUndivided(item, splitCount) == Whole(item.price)

\* item.price / splitCount
pricePerPerson(item, splitCount) == Over(Whole(item.price), Whole(splitCount))

\* A slip: the test for an unassigned item is !assignments[item.id], which an
\* empty array does not pass.
visitItemAbsentOnly(acc, item, store) ==
  LET assignedTo == currentAssignees(store, item.id)
  IN IF item.id \notin DOMAIN store
     THEN [acc EXCEPT !.unassignedItems = Append(@, item)]
     ELSE [acc EXCEPT !.peopleMap =
             shareOut(@, assignedTo, pricePerPerson(item, Len(assignedTo)), item)]

\* The body of data.items.forEach.
visitItem(acc, item, store) ==
  LET assignedTo == currentAssignees(store, item.id)
  IN IF Len(assignedTo) = 0
     THEN [acc EXCEPT !.unassignedItems = Append(@, item)]
     ELSE [acc EXCEPT !.peopleMap =
             shareOut(@, assignedTo, pricePerPerson(item, Len(assignedTo)), item)]

\* data.items.forEach(...) from an empty peopleMap and unassignedItems.
RECURSIVE visitItems(_, _)
visitItems(items, store) ==
  IF items = <<>> THEN [peopleMap |-> <<>>, unassignedItems |-> <<>>]
  ELSE visitItem(visitItems(SubSeq(items, 1, Len(items) - 1), store),
                 items[Len(items)], store)

\* A slip: the division is not guarded.
ratioOfTotalUnguarded(data, person) ==
  Over(person.subtotal, Whole(data.subtotal))

\* data.subtotal > 0 ? (person.subtotal / data.subtotal) : 0
ratioOfTotal(data, person) ==
  IF data.subtotal > 0 THEN Over(person.subtotal, Whole(data.subtotal))
  ELSE Whole(0)

\* A slip: the tip goes by the number of items of the person.
withTaxAndTipByItems(data, person) ==
  LET tax == Times(Whole(data.tax), ratioOfTotal(data, person))
      tip == Times(Whole(data.tip),
                   Over(Whole(Len(person.items)), Whole(Len(data.items))))
  IN [person EXCEPT !.tax = tax, !.tip = tip,
                    !.total = Plus(Plus(person.subtotal, tax), tip)]

\* The body of the map over peopleMap.values(): tax, tip and total of a person.
withTaxAndTip(data, person) ==
  LET tax == Times(Whole(data.tax), ratioOfTotal(data, person))
      tip == Times(Whole(data.tip), ratioOfTotal(data, person))
  IN [person EXCEPT !.tax = tax, !.tip = tip,
                    !.total = Plus(Plus(person.subtotal, tax), tip)]

\* A slip: the people of the store are entered before the items are visited.
summaryFromStore(data, store) ==
  LET acc == visitItems(data.items, store)
      names == existingPeople(store)
      map == acc.peopleMap
               \o SelectSeq([i \in 1..Len(names) |-> newPerson(names[i])],
                            LAMBDA p : ~has(acc.peopleMap, p.name))
  IN [peopleList |-> [i \in 1..Len(map) |-> withTaxAndTip(data, map[i])],
      unassignedItems |-> acc.unassignedItems]

\* The summary useMemo of Summary: { peopleList, unassignedItems }.
summary(data, store) ==
  LET acc == visitItems(data.items, store)
  IN [peopleList |-> [i \in 1..Len(acc.peopleMap) |->
                        withTaxAndTip(data, acc.peopleMap[i])],
      unassignedItems |-> acc.unassignedItems]

\* The "Assigned" row: peopleList.reduce((acc, p) => acc + p.total, 0)
RECURSIVE assignedTotal(_)
assignedTotal(peopleList) ==
  IF peopleList = <<>> THEN Whole(0)
  ELSE Plus(assignedTotal(SubSeq(peopleList, 1, Len(peopleList) - 1)),
            peopleList[Len(peopleList)].total)

\* ------------------------------------------------------------ gemini service

\* What the model API gives back to a call: an error, an empty text, or JSON.
ChatApiOutcomes ==
  {[kind |-> "error", value |-> Null], [kind |-> "empty", value |-> Null]}
    \cup {[kind |-> "json", value |-> Some(r)] : r \in ChatResponse}

ParseApiOutcomes ==
  {[kind |-> "error", value |-> Null], [kind |-> "empty", value |-> Null]}
    \cup {[kind |-> "json", value |-> Some(r)] : r \in Receipts}

\* What the interpreter answers in the worked scenario: the Burger to Tom,
\* the Fries to Tom and Ana; or the call fails.
ScenarioOutcomes ==
  {[kind |-> "error", value |-> Null]}
    \cup {[kind |-> "json",
           value |-> Some([reply |-> "done", assignments |-> <<a>>])] :
            a \in {[itemIds |-> <<1>>, people |-> <<"Tom">>, action |-> "assign"],
                   [itemIds |-> <<2>>, people |-> <<"Tom", "Ana">>, action |-> "assign"]}}

\* What the model API gives back to an audit: an error, an empty text, or a
\* report.
AuditApiOutcomes == {"error", "empty", "report"}

\* "An error occurred while auditing the bill."
AuditFallback == "fallback"

\* auditSplit: the promise resolves with the report, or with "Unable to
\* generate audit report." when the text is empty, or rejects when the API
\* failed.
settleAudit(outcome) ==
  IF outcome = "error" THEN [status |-> "rejected", text |-> Null]
  ELSE [status |-> "resolved",
        text |-> Some(IF outcome = "empty" THEN "unable" ELSE "report")]

NoParseCalls == [pending |-> 0, resolved |-> 0, rejected |-> 0]

ParseCallCount == parseCalls.pending + parseCalls.resolved + parseCalls.rejected

\* processChatCommand / parseReceiptImage: the promise settles with the parsed
\* JSON, or rejects when the API failed or the text is empty.
settle(outcome) ==
  IF outcome.kind = "json"
  THEN [status |-> "resolved", value |-> outcome.value]
  ELSE [status |-> "rejected", value |-> Null]

\* No promise has settled whose continuation has not run yet. An await resumes
\* in a microtask as soon as its promise settles, before any event handler and
\* before any other response is delivered, so nothing but that continuation
\* runs while a promise is settled.
NoneSettled ==
  /\ parseCalls.resolved = 0
  /\ parseCalls.rejected = 0
  /\ \A i \in 1..Len(chatCalls) : chatCalls[i].status = "pending"
  /\ \A i \in 1..Len(auditCalls) : auditCalls[i].status = "pending"

\* ------------------------------------------------------------------- actions

Init ==
  /\ receiptData = Null
  /\ assignments = EmptyAssignments
  /\ messages = <<>>
  /\ isProcessing = FALSE
  /\ isParsing = FALSE
  /\ chatCalls = <<>>
  /\ parseCalls = NoParseCalls
  /\ isAuditing = FALSE
  /\ auditResult = Null
  /\ showAuditModal = FALSE
  /\ auditCalls = <<>>
  /\ auditsStarted = 0

\* App.handleFileSelect up to its await.
handleFileSelect ==
  /\ isParsing' = TRUE
  /\ parseCalls' = [parseCalls EXCEPT !.pending = @ + 1]
  /\ UNCHANGED <<receiptData, assignments, messages, isProcessing, chatCalls, summaryVars>>

\* FileUpload.handleChange: the file input is disabled while isLoading.
handleChange ==
  /\ NoneSettled
  /\ receiptData = Null
  /\ ~isParsing
  /\ ParseCallCount < MaxParseCalls
  /\ handleFileSelect

\* FileUpload.handleDrop: a dropped file is passed on whatever isLoading is.
handleDrop ==
  /\ NoneSettled
  /\ receiptData = Null
  /\ ParseCallCount < MaxParseCalls
  /\ handleFileSelect

\* The extraction model answers a pending call: the promise resolves or
\* rejects. The ReceiptData of a resolved promise is read by the continuation.
ParseReturns ==
  /\ NoneSettled
  /\ \E outcome \in ParseApiOutcomes :
       /\ parseCalls.pending > 0
       /\ parseCalls' = [parseCalls EXCEPT !.pending = @ - 1,
                                           ![settle(outcome).status] = @ + 1]
       /\ UNCHANGED <<receiptData, assignments, messages, isProcessing, isParsing,
                      chatCalls, summaryVars>>

\* A slip: the store is not initialised for the new receipt.
ParseResolvedKeepsStore ==
  \E data \in Receipts :
    /\ parseCalls.resolved > 0
    /\ receiptData' = Some(data)
    /\ messages' = <<AnalyzedMsg>>
    /\ isParsing' = FALSE
    /\ parseCalls' = [parseCalls EXCEPT !.resolved = @ - 1]
    /\ UNCHANGED <<assignments, isProcessing, chatCalls, summaryVars>>

\* App.handleFileSelect after its await, the call having resolved with data.
ParseResolved ==
  \E data \in Receipts :
    /\ parseCalls.resolved > 0
    /\ receiptData' = Some(data)
    /\ assignments' = [k \in {data.items[n].id : n \in 1..Len(data.items)} |-> <<>>]
    /\ messages' = <<AnalyzedMsg>>
    /\ isParsing' = FALSE
    /\ parseCalls' = [parseCalls EXCEPT !.resolved = @ - 1]
    /\ UNCHANGED <<isProcessing, chatCalls, summaryVars>>

\* A slip: the flag is cleared on success only (no finally).
ParseRejectedNoFinally ==
  /\ parseCalls.rejected > 0
  /\ parseCalls' = [parseCalls EXCEPT !.rejected = @ - 1]
  /\ UNCHANGED <<receiptData, assignments, messages, isProcessing, isParsing,
                 chatCalls, summaryVars>>

\* App.handleFileSelect after its await, the call having rejected.
ParseRejected ==
  /\ parseCalls.rejected > 0
  /\ isParsing' = FALSE
  /\ parseCalls' = [parseCalls EXCEPT !.rejected = @ - 1]
  /\ UNCHANGED <<receiptData, assignments, messages, isProcessing, chatCalls, summaryVars>>

\* App.handleSendMessage up to its await.
handleSendMessage ==
  /\ receiptData # Null
  /\ messages' = Append(messages, UserMsg)
  /\ isProcessing' = TRUE
  /\ chatCalls' = Append(chatCalls,
       [status |-> "pending", value |-> Null,
        items |-> receiptData[1].items,
        existingPeople |-> existingPeople(assignments)])
  /\ UNCHANGED <<receiptData, assignments, isParsing, parseCalls, summaryVars>>

\* A slip: the form looks at the input only.
handleSubmitUngated ==
  /\ NoneSettled
  /\ \E input \in {"", "command"} :
       /\ receiptData # Null
       /\ Len(messages) + 2 <= MaxMessages
       /\ IF input = ""
          THEN UNCHANGED vars
          ELSE handleSendMessage

\* ChatInterface.handleSubmit: blank input or a command in progress is ignored.
handleSubmit ==
  /\ NoneSettled
  /\ \E input \in {"", "command"} :
       /\ receiptData # Null
       /\ Len(messages) + 2 <= MaxMessages
       /\ IF input = "" \/ isProcessing
          THEN UNCHANGED vars
          ELSE handleSendMessage

\* The interpreter model answers call i.
ChatReturns ==
  /\ NoneSettled
  /\ \E i \in 1..Len(chatCalls) : \E outcome \in ChatApiOutcomes :
       /\ chatCalls[i].status = "pending"
       /\ chatCalls' = [chatCalls EXCEPT ![i].status = settle(outcome).status,
                                         ![i].value = settle(outcome).value]
       /\ UNCHANGED <<receiptData, assignments, messages, isProcessing, isParsing,
                      parseCalls, summaryVars>>

\* A slip: the store is written after the first action of the batch.
ChatResolvedFirstAction ==
  \E i \in 1..Len(chatCalls) :
    /\ chatCalls[i].status = "resolved"
    /\ LET response == chatCalls[i].value[1]
       IN /\ assignments' = applyActions(assignments,
                               IF response.assignments = <<>> THEN <<>>
                               ELSE <<Head(response.assignments)>>)
          /\ messages' = Append(messages, ReplyMsg(response))
    /\ isProcessing' = FALSE
    /\ chatCalls' = Remove(chatCalls, i)
    /\ UNCHANGED <<receiptData, isParsing, parseCalls, summaryVars>>

\* App.handleSendMessage after its await, the call having resolved.
ChatResolved ==
  \E i \in 1..Len(chatCalls) :
    /\ chatCalls[i].status = "resolved"
    /\ LET response == chatCalls[i].value[1]
       IN /\ assignments' = applyActions(assignments, response.assignments)
          /\ messages' = Append(messages, ReplyMsg(response))
    /\ isProcessing' = FALSE
    /\ chatCalls' = Remove(chatCalls, i)
    /\ UNCHANGED <<receiptData, isParsing, parseCalls, summaryVars>>

\* A slip: the failure is swallowed without a message.
ChatRejectedSilent ==
  \E i \in 1..Len(chatCalls) :
    /\ chatCalls[i].status = "rejected"
    /\ isProcessing' = FALSE
    /\ chatCalls' = Remove(chatCalls, i)
    /\ UNCHANGED <<receiptData, assignments, messages, isParsing, parseCalls, summaryVars>>

\* App.handleSendMessage after its await, the call having rejected.
ChatRejected ==
  \E i \in 1..Len(chatCalls) :
    /\ chatCalls[i].status = "rejected"
    /\ messages' = Append(messages, ApologyMsg)
    /\ isProcessing' = FALSE
    /\ chatCalls' = Remove(chatCalls, i)
    /\ UNCHANGED <<receiptData, assignments, isParsing, parseCalls, summaryVars>>

\* Summary is rendered while a receipt is loaded: when receiptData becomes
\* null it is unmounted and its state is lost; the next Summary starts from
\* the useState defaults. The calls it was awaiting are followed no further:
\* their continuations call the state setters of the unmounted component,
\* which do nothing.
unmountSummary ==
  /\ isAuditing' = FALSE
  /\ auditResult' = Null
  /\ showAuditModal' = FALSE
  /\ auditsStarted' = 0
  /\ auditCalls' = <<>>

\* The Reset button, shown while a receipt is loaded, confirmed.
Reset ==
  /\ NoneSettled
  /\ receiptData # Null
  /\ receiptData' = Null
  /\ messages' = <<>>
  /\ assignments' = EmptyAssignments
  /\ unmountSummary
  /\ UNCHANGED <<isProcessing, isParsing, chatCalls, parseCalls>>

\* The interpreter model answers call i as in the worked scenario.
ScenarioChatReturns ==
  /\ NoneSettled
  /\ \E i \in 1..Len(chatCalls) : \E outcome \in ScenarioOutcomes :
       /\ chatCalls[i].status = "pending"
       /\ chatCalls' = [chatCalls EXCEPT ![i].status = settle(outcome).status,
                                         ![i].value = settle(outcome).value]
       /\ UNCHANGED <<receiptData, assignments, messages, isProcessing, isParsing,
                      parseCalls, summaryVars>>

\* Summary.handleAudit up to its await, from the audit button, which the
\* modal covers while it is shown.
handleAudit ==
  /\ NoneSettled
  /\ receiptData # Null
  /\ ~showAuditModal
  /\ auditsStarted < MaxAudits
  /\ isAuditing' = TRUE
  /\ showAuditModal' = TRUE
  /\ auditResult' = Null
  /\ auditsStarted' = auditsStarted + 1
  /\ auditCalls' = Append(auditCalls,
       [n |-> auditsStarted + 1, status |-> "pending", text |-> Null])
  /\ UNCHANGED <<receiptData, assignments, messages, isProcessing, isParsing,
                 chatCalls, parseCalls>>

\* The close button of the modal.
closeAuditModal ==
  /\ NoneSettled
  /\ receiptData # Null
  /\ showAuditModal
  /\ showAuditModal' = FALSE
  /\ UNCHANGED <<receiptData, assignments, messages, isProcessing, isParsing,
                 chatCalls, parseCalls, isAuditing, auditResult, auditCalls,
                 auditsStarted>>

\* The audit model answers call i.
AuditReturns ==
  /\ NoneSettled
  /\ \E i \in 1..Len(auditCalls) : \E outcome \in AuditApiOutcomes :
       /\ auditCalls[i].status = "pending"
       /\ auditCalls' = [auditCalls EXCEPT ![i].status = settleAudit(outcome).status,
                                           ![i].text = settleAudit(outcome).text]
       /\ UNCHANGED <<receiptData, assignments, messages, isProcessing, isParsing,
                      chatCalls, parseCalls, isAuditing, auditResult,
                      showAuditModal, auditsStarted>>

\* Summary.handleAudit after its await, the call having resolved.
AuditResolved ==
  \E i \in 1..Len(auditCalls) :
    /\ auditCalls[i].status = "resolved"
    /\ auditResult' = Some([text |-> auditCalls[i].text[1], of |-> auditCalls[i].n])
    /\ isAuditing' = FALSE
    /\ auditCalls' = Remove(auditCalls, i)
    /\ UNCHANGED <<receiptData, assignments, messages, isProcessing, isParsing,
                   chatCalls, parseCalls, showAuditModal, auditsStarted>>

\* A slip: the flag is cleared on success only (no finally).
AuditRejectedNoFinally ==
  \E i \in 1..Len(auditCalls) :
    /\ auditCalls[i].status = "rejected"
    /\ auditResult' = Some([text |-> AuditFallback, of |-> auditCalls[i].n])
    /\ auditCalls' = Remove(auditCalls, i)
    /\ UNCHANGED <<receiptData, assignments, messages, isProcessing, isParsing,
                   chatCalls, parseCalls, isAuditing, showAuditModal, auditsStarted>>

\* Summary.handleAudit after its await, the call having rejected.
AuditRejected ==
  \E i \in 1..Len(auditCalls) :
    /\ auditCalls[i].status = "rejected"
    /\ auditResult' = Some([text |-> AuditFallback, of |-> auditCalls[i].n])
    /\ isAuditing' = FALSE
    /\ auditCalls' = Remove(auditCalls, i)
    /\ UNCHANGED <<receiptData, assignments, messages, isProcessing, isParsing,
                   chatCalls, parseCalls, showAuditModal, auditsStarted>>

Next ==
  \/ handleChange
  \/ handleDrop
  \/ ParseReturns
  \/ ParseResolved
  \/ ParseRejected
  \/ handleSubmit
  \/ ChatReturns
  \/ ChatResolved
  \/ ChatRejected
  \/ Reset

\* The controller in a session without audits.
Spec == Init /\ [][Next]_vars

\* The controller and the audit of Summary.
AuditNext ==
  \/ handleChange
  \/ handleDrop
  \/ ParseReturns
  \/ ParseResolved
  \/ ParseRejected
  \/ handleSubmit
  \/ ScenarioChatReturns
  \/ ChatResolved
  \/ ChatRejected
  \/ Reset
  \/ handleAudit
  \/ closeAuditModal
  \/ AuditReturns
  \/ AuditResolved
  \/ AuditRejected

AuditSpec == Init /\ [][AuditNext]_vars

\* The program with its scheduling: the continuation of a settled promise
\* runs (a microtask is never left waiting), and the interpreter model
\* eventually answers a pending call, as C26 supposes.
FairSpec ==
  /\ Spec
  /\ WF_vars(ParseResolved) /\ WF_vars(ParseRejected)
  /\ WF_vars(ChatResolved) /\ WF_vars(ChatRejected)
  /\ SF_vars(ChatReturns)

\* ------------------------------------------------------------------- claims

\* The step runs the continuation of chat call i.
ChatContinues(i) == i \in 1..Len(chatCalls) /\ chatCalls' = Remove(chatCalls, i)

\* The step runs the continuation of a rejected parse call.
ParseFailureHandled ==
  /\ parseCalls.rejected > 0
  /\ parseCalls' = [parseCalls EXCEPT !.rejected = @ - 1]

\* The batch a resolved chat call carries.
BatchOf(call) == call.value[1].assignments

\* The session the call was made in is gone: the receipt was reset, or another
\* receipt has been loaded since.
Stale(call) == receiptData = Null \/ receiptData[1].items # call.items

\* Every list of the store is empty and its keys are the ids of the receipt.
FreshFor(store, data) ==
  /\ DOMAIN store = {data.items[n].id : n \in 1..Len(data.items)}
  /\ \A k \in DOMAIN store : store[k] = <<>>

\* C1: a command-interpretation response that arrives after a reset or a new
\* receipt upload is discarded, it leaves Assignments as they are.
C1_StaleResponseDiscarded ==
  [][\A i \in 1..Len(chatCalls) :
       (chatCalls[i].status = "resolved" /\ ChatContinues(i) /\ Stale(chatCalls[i]))
         => assignments' = assignments]_vars

\* C2: at most one command-interpretation call is in flight, and no step taken
\* while isProcessing is true starts another call.
C2_SingleFlight ==
  /\ [](Len(chatCalls) <= 1)
  /\ [][isProcessing => Len(chatCalls') <= Len(chatCalls)]_vars

\* A command is in flight and the form would still take another one.
C2_Witness ==
  /\ isProcessing
  /\ Len(chatCalls) = 1
  /\ receiptData # Null
  /\ Len(messages) + 2 <= MaxMessages

\* C3: when the command-interpretation call has failed, the continuation leaves
\* Assignments as they were, appends the one apology message and clears
\* isProcessing.
C3_InterpretationFailure ==
  [][\A i \in 1..Len(chatCalls) :
       (chatCalls[i].status = "rejected" /\ ChatContinues(i))
         => /\ assignments' = assignments
            /\ messages' = Append(messages, ApologyMsg)
            /\ isProcessing' = FALSE]_vars

\* A failed command has been answered: the apology follows the user's message,
\* while somebody is assigned.
C3_Witness ==
  /\ Len(messages) >= 2
  /\ messages[Len(messages)] = ApologyMsg
  /\ messages[Len(messages) - 1] = UserMsg
  /\ ~isProcessing
  /\ chatCalls = <<>>
  /\ \E k \in DOMAIN assignments : assignments[k] # <<>>

\* C4: when receipt extraction has failed, the continuation creates no receipt
\* state: receipt (absent if it was absent), Assignments and transcript are as
\* before, and isParsing is false.
C4_ExtractionFailure ==
  [][ParseFailureHandled
       => /\ receiptData' = receiptData
          /\ assignments' = assignments
          /\ messages' = messages
          /\ isParsing' = FALSE]_vars

\* An extraction has failed and its continuation is due, no receipt loaded.
C4_Witness ==
  /\ receiptData = Null
  /\ isParsing
  /\ parseCalls = [pending |-> 0, resolved |-> 0, rejected |-> 1]

\* C5: the store only ever goes from its value before a batch to its value after
\* the whole batch: the continuation of a resolved call stores the fold of the
\* entire batch, and no other step stores anything but an unchanged, an emptied
\* or a freshly initialised store.
C5_BatchAtomic ==
  [][IF \E i \in 1..Len(chatCalls) :
          chatCalls[i].status = "resolved" /\ ChatContinues(i)
     THEN \A i \in 1..Len(chatCalls) :
            (chatCalls[i].status = "resolved" /\ ChatContinues(i))
              => assignments' = applyActions(assignments, BatchOf(chatCalls[i]))
     ELSE \/ assignments' = assignments
          \/ assignments' = EmptyAssignments
          \/ receiptData' # Null /\ FreshFor(assignments', receiptData'[1])]_vars

\* A two-action batch is about to be applied whose first action alone gives a
\* store that is neither the one before nor the one after the batch.
C5_Witness ==
  \E i \in 1..Len(chatCalls) :
    /\ chatCalls[i].status = "resolved"
    /\ Len(BatchOf(chatCalls[i])) = 2
    /\ LET partial == applyActions(assignments, SubSeq(BatchOf(chatCalls[i]), 1, 1))
       IN /\ partial # assignments
          /\ partial # applyActions(assignments, BatchOf(chatCalls[i]))

NoDup(s) == \A i, j \in 1..Len(s) : i # j => s[i] # s[j]

\* Where x first occurs in s.
FirstIndex(s, x) == CHOOSE i \in 1..Len(s) : s[i] = x /\ \A j \in 1..(i - 1) : s[j] # x

\* The members of s keep the order they have in t.
InOrderOf(s, t) ==
  \A i, j \in 1..Len(s) : i < j => FirstIndex(t, s[i]) < FirstIndex(t, s[j])

AssignActions == {op \in AssignmentAction : op.action = "assign"}

UnassignActions == {op \in AssignmentAction : op.action = "unassign"}

\* No command is in flight. Every store the controller ever holds is held in
\* such a state: a store is written by the continuation of the one call in
\* flight, by a successful extraction or by reset.
Idle == chatCalls = <<>>

\* The step runs the continuation of resolved call i, whose batch is the one
\* action OnlyAction(i), of the given kind.
OnlyAction(i) == BatchOf(chatCalls[i])[1]

AppliesOne(i, kind) ==
  /\ i \in 1..Len(chatCalls)
  /\ chatCalls[i].status = "resolved"
  /\ ChatContinues(i)
  /\ Len(BatchOf(chatCalls[i])) = 1
  /\ OnlyAction(i).action = kind

\* new is old followed by the people not in old, each once, in the order given.
Appended(old, new, people) ==
  /\ Len(new) >= Len(old)
  /\ SubSeq(new, 1, Len(old)) = old
  /\ LET added == SubSeq(new, Len(old) + 1, Len(new))
     IN /\ Range(added) = Range(people) \ Range(old)
        /\ NoDup(added)
        /\ InOrderOf(added, people)

\* new is old without the people named, the others in their previous order.
Removed(old, new, people) ==
  /\ Range(new) = Range(old) \ Range(people)
  /\ NoDup(new)
  /\ InOrderOf(new, old)

\* C6: an assign action gives each item it names the old assignee list followed
\* by the people of the action that were not in it, each once, in the order
\* the action gives them: for every action on every store the controller
\* holds, and in every step that applies a one-action batch.
C6_AssignAppends ==
  /\ [](Idle =>
         \A op \in AssignActions : \A k \in Range(op.itemIds) :
           Appended(currentAssignees(assignments, k),
                    applyActions(assignments, <<op>>)[k], op.people))
  /\ [][\A i \in 1..Len(chatCalls) :
          AppliesOne(i, "assign") =>
            \A k \in Range(OnlyAction(i).itemIds) :
              Appended(currentAssignees(assignments, k), assignments'[k],
                       OnlyAction(i).people)]_vars

\* An assign action is about to be applied to an item that has an assignee; the
\* action names that assignee again, after a new person.
C6_Witness ==
  \E i \in 1..Len(chatCalls) :
    /\ chatCalls[i].status = "resolved"
    /\ Len(BatchOf(chatCalls[i])) = 1
    /\ LET op == BatchOf(chatCalls[i])[1]
       IN /\ op.action = "assign"
          /\ op.people = <<"Tom", "Ana">>
          /\ \E k \in Range(op.itemIds) :
               k \in DOMAIN assignments /\ assignments[k] = <<"Ana">>

\* C7: an unassign action gives each item it names the old assignee list without
\* the people of the action; the others stay, in their previous order: for
\* every action on every store the controller holds, and in every step that
\* applies a one-action batch.
C7_UnassignRemoves ==
  /\ [](Idle =>
         \A op \in UnassignActions : \A k \in Range(op.itemIds) :
           Removed(currentAssignees(assignments, k),
                   applyActions(assignments, <<op>>)[k], op.people))
  /\ [][\A i \in 1..Len(chatCalls) :
          AppliesOne(i, "unassign") =>
            \A k \in Range(OnlyAction(i).itemIds) :
              Removed(currentAssignees(assignments, k), assignments'[k],
                      OnlyAction(i).people)]_vars

\* An unassign action is about to be applied to an item shared by two people,
\* one of whom it names.
C7_Witness ==
  \E i \in 1..Len(chatCalls) :
    /\ chatCalls[i].status = "resolved"
    /\ Len(BatchOf(chatCalls[i])) = 1
    /\ LET op == BatchOf(chatCalls[i])[1]
       IN /\ op.action = "unassign"
          /\ Len(op.people) = 1
          /\ \E k \in Range(op.itemIds) :
               /\ k \in DOMAIN assignments
               /\ Len(assignments[k]) = 2
               /\ op.people[1] \in Range(assignments[k])

\* Two actions on the same items and people, the second undoing the first.
Opposite(a, b) ==
  a.itemIds = b.itemIds /\ a.people = b.people /\ a.action # b.action

\* C8: a batch of two actions is applied left to right, the second action on
\* the store the first one produced; on the same item and people, assign then
\* unassign leaves the people unassigned, unassign then assign leaves them
\* assigned.
C8_SequentialFold ==
  [][\A i \in 1..Len(chatCalls) :
       (/\ chatCalls[i].status = "resolved"
        /\ ChatContinues(i)
        /\ Len(BatchOf(chatCalls[i])) = 2)
         => LET a == BatchOf(chatCalls[i])[1]
                b == BatchOf(chatCalls[i])[2]
            IN /\ assignments' = applyActions(applyActions(assignments, <<a>>), <<b>>)
               /\ Opposite(a, b) =>
                    \A k \in Range(a.itemIds) :
                      IF b.action = "unassign"
                      THEN Range(assignments'[k]) \cap Range(a.people) = {}
                      ELSE Range(a.people) \subseteq Range(assignments'[k])]_vars

\* A batch that assigns a person to an item and then unassigns the same person
\* from it is about to be applied, and the order of the two actions matters.
C8_Witness ==
  \E i \in 1..Len(chatCalls) :
    /\ chatCalls[i].status = "resolved"
    /\ Len(BatchOf(chatCalls[i])) = 2
    /\ LET a == BatchOf(chatCalls[i])[1]
           b == BatchOf(chatCalls[i])[2]
       IN /\ Opposite(a, b)
          /\ a.action = "assign"
          /\ applyActions(assignments, <<a, b>>) # applyActions(assignments, <<b, a>>)

\* The store differs from A only on the items named by op.
FrameOf(A, new, op) ==
  /\ DOMAIN new = DOMAIN A \cup Range(op.itemIds)
  /\ \A k \in DOMAIN A \ Range(op.itemIds) : new[k] = A[k]

\* C9: an assign action leaves every item it does not name as it was (same
\* keys, same lists), for every action on every store the controller holds and
\* in every step that applies a one-action batch; assigning item 2 to Tom and
\* Ana on the all-empty store of the two-item receipt gives item 2 both and
\* leaves item 1 unassigned.
C9_AssignFrame ==
  /\ [](Idle =>
         \A op \in AssignActions :
           FrameOf(assignments, applyActions(assignments, <<op>>), op))
  /\ [][\A i \in 1..Len(chatCalls) :
          AppliesOne(i, "assign") =>
            /\ FrameOf(assignments, assignments', OnlyAction(i))
            /\ (/\ FreshFor(assignments, ScenarioReceipt)
                /\ OnlyAction(i).itemIds = <<2>>
                /\ OnlyAction(i).people = <<"Tom", "Ana">>)
                 => assignments' = (1 :> <<>>) @@ (2 :> <<"Tom", "Ana">>)]_vars

\* The scenario has run: the two-item receipt is loaded, item 2 is assigned to
\* Tom and Ana, item 1 to nobody.
C9_Witness ==
  /\ receiptData = Some(ScenarioReceipt)
  /\ assignments = (1 :> <<>>) @@ (2 :> <<"Tom", "Ana">>)
  /\ messages = <<AnalyzedMsg, UserMsg, [role |-> "assistant", text |-> "done"]>>

\* assign(items, people) followed by unassign(items, people).
AssignThenUnassign(A, op) ==
  applyActions(applyActions(A, <<op>>), << [op EXCEPT !.action = "unassign"] >>)

\* None of the people of op is assigned to any of its items.
NoneAssigned(A, op) ==
  \A k \in Range(op.itemIds) : Range(currentAssignees(A, k)) \cap Range(op.people) = {}

\* C10 as stated: with a receipt loaded, assign(items, people) then
\* unassign(items, people) gives back the very store it started from, whenever
\* none of the people was on those items.
C10_InverseExact ==
  receiptData # Null =>
    \A op \in AssignActions :
      NoneAssigned(assignments, op) => AssignThenUnassign(assignments, op) = assignments

\* back gives every item the list it has in A, with an entry for each item
\* of A and each item named by op; it is A exactly when op names no new item.
SameUpToEntries(A, back, op) ==
  /\ DOMAIN back = DOMAIN A \cup Range(op.itemIds)
  /\ \A k \in DOMAIN back : back[k] = currentAssignees(A, k)
  /\ (back = A) <=> (Range(op.itemIds) \subseteq DOMAIN A)

\* C10 amended: assign(items, people) then unassign(items, people), none of the
\* people being on those items, gives every item the list it had (an item
\* without an entry counting as empty); the store has the entries it had plus
\* one for each item named, so it is the store it started from exactly when
\* every item named had an entry. For every action on every store the
\* controller holds, and in every step that applies such a pair as one batch.
C10_InverseUpToEntries ==
  /\ [](Idle =>
         \A op \in AssignActions :
           NoneAssigned(assignments, op) =>
             SameUpToEntries(assignments, AssignThenUnassign(assignments, op), op))
  /\ [][\A i \in 1..Len(chatCalls) :
          (/\ chatCalls[i].status = "resolved"
           /\ ChatContinues(i)
           /\ Len(BatchOf(chatCalls[i])) = 2
           /\ BatchOf(chatCalls[i])[1].action = "assign"
           /\ Opposite(BatchOf(chatCalls[i])[1], BatchOf(chatCalls[i])[2])
           /\ NoneAssigned(assignments, BatchOf(chatCalls[i])[1]))
            => SameUpToEntries(assignments, assignments',
                               BatchOf(chatCalls[i])[1])]_vars

\* A batch that assigns Tom to an item held by Ana and then unassigns him is
\* about to be applied.
C10_Witness ==
  \E i \in 1..Len(chatCalls) :
    /\ chatCalls[i].status = "resolved"
    /\ Len(BatchOf(chatCalls[i])) = 2
    /\ LET a == BatchOf(chatCalls[i])[1]
           b == BatchOf(chatCalls[i])[2]
       IN /\ a.action = "assign"
          /\ Opposite(a, b)
          /\ a.people = <<"Tom">>
          /\ \E k \in Range(a.itemIds) :
               k \in DOMAIN assignments /\ assignments[k] = <<"Ana">>

\* A third diner, for stores wider than the interpreter of the runs produces.
Diners == People \cup {"Liz"}

\* Every store the data model allows over the item ids and the diners: any set
\* of keys, each list without a repeated name.
Stores ==
  UNION {[K -> {l \in SeqsUpTo(Diners, MaxAssignees) : NoDup(l)}] :
           K \in SUBSET ItemIdUniverse}

\* Applying op twice to the store gives what applying it once gives.
IdempotentOn(store, op) ==
  applyActions(applyActions(store, <<op>>), <<op>>) = applyActions(store, <<op>>)

IdempotentEverywhere ==
  \A store \in Stores : \A op \in AssignActions : IdempotentOn(store, op)

\* C11: applying the same assign action twice gives the store that applying it
\* once gives: for the actions of the interpreter on every store the
\* controller holds, for every assign action (empty, repeated and reordered
\* people and item ids included) on every store of the data model, and in
\* every step that applies a batch made of one assign action twice.
C11_AssignIdempotent ==
  /\ [](Idle =>
         /\ \A op \in InterpreterAction :
              op.action = "assign" => IdempotentOn(assignments, op)
         /\ IdempotentEverywhere)
  /\ [][\A i \in 1..Len(chatCalls) :
          (/\ chatCalls[i].status = "resolved"
           /\ ChatContinues(i)
           /\ Len(BatchOf(chatCalls[i])) = 2
           /\ BatchOf(chatCalls[i])[1] = BatchOf(chatCalls[i])[2]
           /\ BatchOf(chatCalls[i])[1].action = "assign")
            => assignments' = applyActions(assignments, <<BatchOf(chatCalls[i])[1]>>)]_vars

\* A batch that assigns Tom and Ana to an item twice is about to be applied,
\* Ana being on the item already.
C11_Witness ==
  \E i \in 1..Len(chatCalls) :
    /\ chatCalls[i].status = "resolved"
    /\ Len(BatchOf(chatCalls[i])) = 2
    /\ LET a == BatchOf(chatCalls[i])[1]
       IN /\ a = BatchOf(chatCalls[i])[2]
          /\ a.action = "assign"
          /\ a.people = <<"Tom", "Ana">>
          /\ \E k \in Range(a.itemIds) :
               k \in DOMAIN assignments /\ assignments[k] = <<"Ana">>

\* C12: in every reachable state no person name occurs more than once in the
\* assignee list of any item.
C12_NoDuplicateAssignee ==
  \A k \in DOMAIN assignments : NoDup(assignments[k])

\* Two commands have been answered and an item is shared by Tom and Ana, each
\* once.
C12_Witness ==
  /\ Len(messages) = 5
  /\ \E k \in DOMAIN assignments :
       Len(assignments[k]) = 2 /\ Range(assignments[k]) = {"Tom", "Ana"}

ItemIds(data) == {data.items[n].id : n \in 1..Len(data.items)}

\* The step runs the continuation of a resolved parse call.
ParseSuccessHandled ==
  /\ parseCalls.resolved > 0
  /\ parseCalls' = [parseCalls EXCEPT !.resolved = @ - 1]

\* C13: the continuation of a successful parse leaves a store with exactly one
\* entry per item id of the receipt it loads, each empty; while a receipt is
\* loaded every item id of it has an entry; the step that resets the session
\* leaves the empty store.
C13_EntryPerItem ==
  /\ [](receiptData # Null => ItemIds(receiptData[1]) \subseteq DOMAIN assignments)
  /\ [][ParseSuccessHandled
          => receiptData' # Null /\ FreshFor(assignments', receiptData'[1])]_vars
  /\ [][(receiptData # Null /\ receiptData' = Null)
          => assignments' = EmptyAssignments]_vars

\* The two-item receipt is loaded, two commands have been answered, one item has
\* an assignee and the other has none.
C13_Witness ==
  /\ receiptData = Some(ScenarioReceipt)
  /\ Len(messages) = 5
  /\ DOMAIN assignments = {1, 2}
  /\ assignments[1] # <<>>
  /\ assignments[2] = <<>>

\* The person names present in a store.
NamesIn(a) == UNION {Range(a[k]) : k \in DOMAIN a}

\* C15: the existing-people list handed to the interpreter holds, each once, the
\* person names of the store as it is when the command is sent, which that
\* step does not change; while the call is in flight the list misses no name
\* of the store; and when the command's actions are applied the names of the
\* store they are applied to are those of the list, or none when a reset or a
\* newly loaded receipt has emptied the store meanwhile.
C15_ExistingPeopleBefore ==
  /\ [][Len(chatCalls') > Len(chatCalls)
          => /\ assignments' = assignments
             /\ NoDup(chatCalls'[Len(chatCalls')].existingPeople)
             /\ Range(chatCalls'[Len(chatCalls')].existingPeople)
                  = NamesIn(assignments)]_vars
  /\ [](\A i \in 1..Len(chatCalls) :
          NamesIn(assignments) \subseteq Range(chatCalls[i].existingPeople))
  /\ [][\A i \in 1..Len(chatCalls) :
          (chatCalls[i].status = "resolved" /\ ChatContinues(i))
            => \/ NamesIn(assignments) = Range(chatCalls[i].existingPeople)
               \/ NamesIn(assignments) = {}]_vars

\* A second command, sent while Tom is on both items, has been answered with an
\* action that brings in Ana, and is about to be applied: the list handed over
\* names Tom once and does not name Ana.
C15_Witness ==
  \E i \in 1..Len(chatCalls) :
    /\ chatCalls[i].status = "resolved"
    /\ chatCalls[i].existingPeople = <<"Tom">>
    /\ DOMAIN assignments = {1, 2}
    /\ assignments[1] = <<"Tom">>
    /\ assignments[2] = <<"Tom">>
    /\ Len(BatchOf(chatCalls[i])) = 1
    /\ BatchOf(chatCalls[i])[1].action = "assign"
    /\ "Ana" \in Range(BatchOf(chatCalls[i])[1].people)

\* A receipt is loaded, so that Summary shows its settlement, and no command is
\* in flight. Every receipt and store the controller ever holds together are
\* held in such a state: a store written while a call is in flight is the
\* empty or the freshly initialised one.
Settled == receiptData # Null /\ Idle

\* Amounts are compared as JavaScript compares numbers: NaN equals nothing.
Same(a, b) == a = b /\ a # NaN

\* The sum of the numbers of a sequence.
RECURSIVE Sum(_)
Sum(s) == IF s = <<>> THEN Whole(0) ELSE Plus(Sum(SubSeq(s, 1, Len(s) - 1)), s[Len(s)])

\* What the items of the receipt owe a person: for each item the person is
\* assigned to, its price divided by the number of its assignees.
OwedBy(data, store, name) ==
  Sum([n \in 1..Len(data.items) |->
         LET assignedTo == currentAssignees(store, data.items[n].id)
         IN IF name \in Range(assignedTo)
            THEN Over(Whole(data.items[n].price), Whole(Len(assignedTo)))
            ELSE Whole(0)])

\* The settlement is the one C16 describes: its people are those assigned to
\* some item of the receipt; each one's subtotal is what the items owe them,
\* their total is subtotal + tax + tip and, the receipt's subtotal being
\* positive, their tax and tip are the receipt's times subtotal over the
\* receipt's subtotal.
SettledAsStated(data, store) ==
  LET people == summary(data, store).peopleList
  IN /\ {people[i].name : i \in 1..Len(people)}
          = UNION {Range(currentAssignees(store, data.items[n].id)) :
                     n \in 1..Len(data.items)}
     /\ \A i \in 1..Len(people) :
          /\ Same(people[i].subtotal, OwedBy(data, store, people[i].name))
          /\ Same(people[i].total,
                  Plus(Plus(people[i].subtotal, people[i].tax), people[i].tip))
          /\ data.subtotal > 0 =>
               /\ Same(people[i].tax,
                       Over(Times(Whole(data.tax), people[i].subtotal),
                            Whole(data.subtotal)))
               /\ Same(people[i].tip,
                       Over(Times(Whole(data.tip), people[i].subtotal),
                            Whole(data.subtotal)))

\* The figures of a person of the settlement.
Figures(person) == <<person.name, person.subtotal, person.tax, person.tip, person.total>>

\* The scenario's store: the Burger to Tom, the Fries shared by Tom and Ana.
ScenarioStore == (1 :> <<"Tom">>) @@ (2 :> <<"Tom", "Ana">>)

SettledEverywhere == \A data \in Receipts : \A store \in Stores : SettledAsStated(data, store)

\* C16: in the settlement of the loaded receipt and the store, a person's
\* subtotal is the sum over the items they are assigned to of price / number
\* of assignees, tax and tip are the receipt's times subtotal / receipt
\* subtotal (for a receipt with a positive subtotal, where that quotient is a
\* number), total is subtotal + tax + tip; so it is for every receipt and
\* every store of the data model; and the scenario (amounts in cents) gives
\* Tom 1300 / 130 / 260 / 1690 and Ana 300 / 30 / 60 / 390 with nothing
\* unassigned.
C16_SettlementResult ==
  /\ Settled => /\ SettledAsStated(receiptData[1], assignments)
                /\ SettledEverywhere
  /\ (receiptData = Some(ScenarioReceipt) /\ assignments = ScenarioStore) =>
       LET s == summary(receiptData[1], assignments)
       IN /\ Len(s.peopleList) = 2
          /\ Figures(s.peopleList[1])
               = <<"Tom", Whole(1300), Whole(130), Whole(260), Whole(1690)>>
          /\ Figures(s.peopleList[2])
               = <<"Ana", Whole(300), Whole(30), Whole(60), Whole(390)>>
          /\ s.unassignedItems = <<>>

\* The scenario has been played: the two-item receipt is loaded, the Burger is
\* Tom's and the Fries are shared by Tom and Ana.
C16_Witness ==
  /\ receiptData = Some(ScenarioReceipt)
  /\ assignments = ScenarioStore
  /\ chatCalls = <<>>

\* The store without the entries of ids that are not items of the receipt.
OnReceipt(data, store) == [k \in DOMAIN store \cap ItemIds(data) |-> store[k]]

\* The entries of ids that are not items of the receipt change nothing in the
\* settlement, and its people are all on some item of the receipt.
UnknownIdsUnseen(data, store) ==
  LET s == summary(data, store)
  IN /\ s = summary(data, OnReceipt(data, store))
     /\ \A i \in 1..Len(s.peopleList) :
          \E k \in DOMAIN store \cap ItemIds(data) :
            s.peopleList[i].name \in Range(store[k])
     /\ Range(s.unassignedItems) \subseteq Range(data.items)

UnknownIdsUnseenEverywhere ==
  \A data \in Receipts : \A store \in Stores : UnknownIdsUnseen(data, store)

\* C14: the continuation that applies an action naming only ids that are not
\* items of the loaded receipt appends the reply, not the apology, gives each
\* such id the entry the reducer computes, and leaves the settlement (people,
\* subtotals, unassigned items) as it was; whatever entries such ids have, the
\* settlement is that of the store without them: for the loaded receipt and the
\* store, and for every receipt and store of the data model.
C14_UnknownItemId ==
  /\ [](Settled => /\ UnknownIdsUnseen(receiptData[1], assignments)
                   /\ UnknownIdsUnseenEverywhere)
  /\ [][\A i \in 1..Len(chatCalls) :
          (/\ receiptData # Null
           /\ chatCalls[i].status = "resolved"
           /\ ChatContinues(i)
           /\ Len(BatchOf(chatCalls[i])) = 1
           /\ Range(OnlyAction(i).itemIds) \cap ItemIds(receiptData[1]) = {})
            => /\ messages' = Append(messages, ReplyMsg(chatCalls[i].value[1]))
               /\ \A k \in Range(OnlyAction(i).itemIds) :
                    /\ k \in DOMAIN assignments'
                    /\ assignments'[k]
                         = applyItem(assignments, OnlyAction(i), k)[k]
               /\ summary(receiptData[1], assignments')
                    = summary(receiptData[1], assignments)]_vars

\* The one-item receipt is loaded and a command has given Tom an entry under
\* id 2, which is not an item of it; the item of the receipt is Ana's.
C14_Witness ==
  /\ receiptData = Some(SingleReceipt)
  /\ assignments = (1 :> <<"Ana">>) @@ (2 :> <<"Tom">>)
  /\ Len(messages) = 5

\* a - b
Minus(a, b) == Plus(a, Times(Whole(-1), b))

\* The subtotal a person has in a peopleMap, 0 when they are not in it.
SubtotalIn(peopleMap, name) ==
  Sum([i \in 1..Len(peopleMap) |->
         IF peopleMap[i].name = name THEN peopleMap[i].subtotal ELSE Whole(0)])

\* What visiting the n-th item of the receipt adds to the subtotal of a person.
Contribution(data, store, n, name) ==
  Minus(SubtotalIn(visitItems(SubSeq(data.items, 1, n), store).peopleMap, name),
        SubtotalIn(visitItems(SubSeq(data.items, 1, n - 1), store).peopleMap, name))

\* Every item with an assignee contributes its price, summed over its assignees.
Conserves(data, store) ==
  \A n \in 1..Len(data.items) :
    LET assignedTo == currentAssignees(store, data.items[n].id)
    IN Len(assignedTo) >= 1 =>
         Same(Sum([j \in 1..Len(assignedTo) |->
                     Contribution(data, store, n, assignedTo[j])]),
              Whole(data.items[n].price))

ConservesEverywhere ==
  \A data \in Receipts : \A store \in Stores : Conserves(data, store)

\* C17: for every item of the receipt assigned to n >= 1 people, what the item
\* adds to the subtotals of its assignees sums to its price: for the loaded
\* receipt and the store, and for every receipt and every store of the data
\* model (n from 1 to the longest assignee list).
C17_Conservation ==
  Settled => /\ Conserves(receiptData[1], assignments)
             /\ ConservesEverywhere

\* An item of 305 cents, two units of it, is shared by two people.
C17_Witness ==
  /\ receiptData = Some(DegenerateReceipt)
  /\ Len(assignments[1]) = 2

\* The n-th item is listed as unassigned and is nobody's exactly when it has no
\* assignee, and then visiting it changes nothing for anybody.
Tracked(data, store, n) ==
  LET item == data.items[n]
      s == summary(data, store)
      listed == \E m \in 1..Len(s.unassignedItems) : s.unassignedItems[m] = item
  IN IF currentAssignees(store, item.id) = <<>>
     THEN /\ listed
          /\ \A i \in 1..Len(s.peopleList) : item \notin Range(s.peopleList[i].items)
          /\ visitItems(SubSeq(data.items, 1, n), store).peopleMap
               = visitItems(SubSeq(data.items, 1, n - 1), store).peopleMap
     ELSE ~listed

TrackedEverywhere ==
  \A data \in Receipts : \A store \in Stores :
    \A n \in 1..Len(data.items) : Tracked(data, store, n)

\* C18: every item of the receipt whose assignee list is empty or absent is in
\* the unassigned list, is in nobody's item list and adds nothing to anybody's
\* subtotal; every item with an assignee is not in the unassigned list: for
\* the loaded receipt and the store, and for every receipt and store of the
\* data model.
C18_UnassignedTracking ==
  Settled =>
    /\ \A n \in 1..Len(receiptData[1].items) : Tracked(receiptData[1], assignments, n)
    /\ TrackedEverywhere

\* The two-item receipt is loaded, the Fries are Ana's and the Burger is
\* nobody's.
C18_Witness ==
  /\ receiptData = Some(ScenarioReceipt)
  /\ DOMAIN assignments = {1, 2}
  /\ assignments[1] = <<>>
  /\ assignments[2] = <<"Ana">>

\* Two people of the settlement to whom the proportionality claim applies.
BothOwe(data, a, b) ==
  /\ data.subtotal > 0
  /\ a.subtotal # Whole(0)
  /\ b.subtotal # Whole(0)

\* C19 as stated: with a receipt loaded whose subtotal is positive, for any two
\* people of the settlement with nonzero subtotals, A.tax / B.tax equals
\* A.subtotal / B.subtotal, and likewise for tip.
C19_EqualQuotients ==
  Settled =>
    LET people == summary(receiptData[1], assignments).peopleList
    IN \A i, j \in 1..Len(people) :
         BothOwe(receiptData[1], people[i], people[j]) =>
           /\ Same(Over(people[i].tax, people[j].tax),
                   Over(people[i].subtotal, people[j].subtotal))
           /\ Same(Over(people[i].tip, people[j].tip),
                   Over(people[i].subtotal, people[j].subtotal))

\* Taxes and tips are in the proportion of the subtotals; the quotients are
\* equal when the receipt has a tax (a tip), and when it has none both people
\* have none.
Proportional(data, store) ==
  LET people == summary(data, store).peopleList
  IN \A i, j \in 1..Len(people) :
       BothOwe(data, people[i], people[j]) =>
         /\ Same(Times(people[i].tax, people[j].subtotal),
                 Times(people[j].tax, people[i].subtotal))
         /\ Same(Times(people[i].tip, people[j].subtotal),
                 Times(people[j].tip, people[i].subtotal))
         /\ IF data.tax # 0
            THEN Same(Over(people[i].tax, people[j].tax),
                      Over(people[i].subtotal, people[j].subtotal))
            ELSE people[i].tax = Whole(0) /\ people[j].tax = Whole(0)
         /\ IF data.tip # 0
            THEN Same(Over(people[i].tip, people[j].tip),
                      Over(people[i].subtotal, people[j].subtotal))
            ELSE people[i].tip = Whole(0) /\ people[j].tip = Whole(0)

ProportionalEverywhere ==
  \A data \in Receipts : \A store \in Stores : Proportional(data, store)

\* C19 amended: for any two people of the settlement with nonzero subtotals,
\* the receipt's subtotal being positive, A.tax * B.subtotal = B.tax *
\* A.subtotal and likewise for tip; A.tax / B.tax equals A.subtotal /
\* B.subtotal when the receipt's tax is not 0, and likewise for tip when the
\* receipt's tip is not 0; a receipt without tax (tip) gives both people none.
C19_Proportionality ==
  Settled => /\ Proportional(receiptData[1], assignments)
             /\ ProportionalEverywhere

\* Two people with different subtotals, on a receipt with tax and tip.
C19_Witness ==
  /\ receiptData # Null
  /\ receiptData[1].tax # 0
  /\ receiptData[1].tip # 0
  /\ LET people == summary(receiptData[1], assignments).peopleList
     IN /\ Len(people) = 2
        /\ BothOwe(receiptData[1], people[1], people[2])
        /\ people[1].subtotal # people[2].subtotal

\* On a receipt whose subtotal is 0 everybody has tax 0, tip 0 and a total
\* equal to their subtotal.
NoTaxNoTip(data, store) ==
  LET people == summary(data, store).peopleList
  IN data.subtotal = 0 =>
       \A i \in 1..Len(people) :
         /\ people[i].tax = Whole(0)
         /\ people[i].tip = Whole(0)
         /\ people[i].total = people[i].subtotal

NoTaxNoTipEverywhere ==
  \A data \in Receipts : \A store \in Stores : NoTaxNoTip(data, store)

\* C20: when the receipt's subtotal is 0, every person of the settlement has
\* tax 0 and tip 0 and a total equal to their subtotal, whatever that subtotal
\* and the receipt's tax and tip: for the loaded receipt and the store, and
\* for every receipt and store of the data model.
C20_DegenerateReceipt ==
  Settled => /\ NoTaxNoTip(receiptData[1], assignments)
             /\ NoTaxNoTipEverywhere

\* The receipt with subtotal 0, tax 30 and tip 50 is loaded and its item of
\* 305 cents is Tom's alone.
C20_Witness ==
  /\ receiptData = Some(DegenerateReceipt)
  /\ assignments = (1 :> <<"Tom">>)
  /\ summary(receiptData[1], assignments).peopleList[1].subtotal = Whole(305)

\* Where a person is first encountered when the items are visited in receipt
\* order and, within an item, its assignees in list order: the index of the
\* first item they are assigned to and their place among its assignees.
FirstSeen(data, store, name) ==
  LET n == CHOOSE n \in 1..Len(data.items) :
             /\ name \in Range(currentAssignees(store, data.items[n].id))
             /\ \A m \in 1..(n - 1) :
                  name \notin Range(currentAssignees(store, data.items[m].id))
  IN <<n, FirstIndex(currentAssignees(store, data.items[n].id), name)>>

\* One encounter comes before another.
Earlier(a, b) == a[1] < b[1] \/ (a[1] = b[1] /\ a[2] < b[2])

\* The people of the settlement are assigned to some item of the receipt and
\* stand in the order of their first encounter; the unassigned items are the
\* items without assignees, in receipt order.
FirstEncounterOrder(data, store) ==
  LET s == summary(data, store)
      people == s.peopleList
  IN /\ \A i \in 1..Len(people) :
          \E n \in 1..Len(data.items) :
            people[i].name \in Range(currentAssignees(store, data.items[n].id))
     /\ \A i, j \in 1..Len(people) :
          i < j => Earlier(FirstSeen(data, store, people[i].name),
                           FirstSeen(data, store, people[j].name))
     /\ s.unassignedItems
          = SelectSeq(data.items,
                      LAMBDA item : Len(currentAssignees(store, item.id)) = 0)

FirstEncounterOrderEverywhere ==
  \A data \in Receipts : \A store \in Stores : FirstEncounterOrder(data, store)

\* C21: the settlement lists the people in the order in which they are first
\* encountered when the items are visited in receipt order and each item's
\* assignees in list order, and the unassigned items in receipt order: for the
\* loaded receipt and the store, and for every receipt and store of the data
\* model.
C21_FirstEncounterOrder ==
  Settled => /\ FirstEncounterOrder(receiptData[1], assignments)
             /\ FirstEncounterOrderEverywhere

\* The Burger is Ana's and the Fries list Tom before Ana: the settlement has
\* Ana first, by the Burger, and Tom second, although Tom leads the Fries.
C21_Witness ==
  /\ receiptData = Some(ScenarioReceipt)
  /\ assignments = (1 :> <<"Ana">>) @@ (2 :> <<"Tom", "Ana">>)
  /\ chatCalls = <<>>
  /\ LET people == summary(receiptData[1], assignments).peopleList
     IN /\ Len(people) = 2
        /\ people[1].name = "Ana"
        /\ people[2].name = "Tom"

\* a < b, for numbers.
Less(a, b) == a.d > 0 /\ b.d > 0 /\ a.n * b.d < b.n * a.d

\* Some item of the receipt remains unassigned.
SomeUnassigned(data, store) == summary(data, store).unassignedItems # <<>>

\* The sum of all persons' totals is less than receipt.total.
AssignedBelowTotal(data, store) ==
  Less(assignedTotal(summary(data, store).peopleList), Whole(data.total))

\* C22 as stated: whenever at least one item of the loaded receipt remains
\* unassigned, the sum of all persons' totals in the settlement is less than
\* receipt.total.
C22_AssignedBelowTotal ==
  (Settled /\ SomeUnassigned(receiptData[1], assignments))
    => AssignedBelowTotal(receiptData[1], assignments)

\* The figures of the receipt agree: no price, tax or tip is negative, the
\* subtotal is the sum of the item prices and the total is
\* subtotal + tax + tip.
Consistent(data) ==
  /\ \A n \in 1..Len(data.items) : data.items[n].price >= 0
  /\ data.tax >= 0
  /\ data.tip >= 0
  /\ Whole(data.subtotal) = Sum([n \in 1..Len(data.items) |-> Whole(data.items[n].price)])
  /\ data.total = data.subtotal + data.tax + data.tip

\* Some item with a price above 0 remains unassigned.
SomePricedUnassigned(data, store) ==
  LET unassigned == summary(data, store).unassignedItems
  IN \E n \in 1..Len(unassigned) : unassigned[n].price > 0

\* On a consistent receipt with a priced item unassigned, the sum of the
\* totals is less than receipt.total.
PricedBelowTotal(data, store) ==
  (Consistent(data) /\ SomePricedUnassigned(data, store))
    => AssignedBelowTotal(data, store)

PricedBelowTotalEverywhere ==
  \A data \in Receipts : \A store \in Stores : PricedBelowTotal(data, store)

\* C22, amended: whenever at least one item with a price above 0 remains
\* unassigned and the receipt's figures are consistent, the sum of all
\* persons' totals in the settlement is less than receipt.total: for the
\* loaded receipt and the store, and for every receipt and store of the data
\* model.
C22_PricedBelowTotal ==
  Settled => /\ PricedBelowTotal(receiptData[1], assignments)
             /\ PricedBelowTotalEverywhere

\* The Burger is unassigned and the Fries are Ana's: she owes 780 of 2080.
C22_Witness ==
  /\ receiptData = Some(ScenarioReceipt)
  /\ chatCalls = <<>>
  /\ assignments = (1 :> <<>>) @@ (2 :> <<"Ana">>)
  /\ assignedTotal(summary(receiptData[1], assignments).peopleList) = Whole(780)

\* Every item of the receipt has at least one assignee, and the receipt's
\* subtotal is the sum of its item prices and is above 0.
FullyAssigned(data, store) ==
  /\ \A n \in 1..Len(data.items) :
       Len(currentAssignees(store, data.items[n].id)) >= 1
  /\ Whole(data.subtotal)
       = Sum([n \in 1..Len(data.items) |-> Whole(data.items[n].price)])
  /\ data.subtotal > 0

\* The persons' subtotals, taxes and tips sum to the receipt's.
SumsToReceipt(data, store) ==
  LET people == summary(data, store).peopleList
  IN /\ Same(Sum([i \in 1..Len(people) |-> people[i].subtotal]), Whole(data.subtotal))
     /\ Same(Sum([i \in 1..Len(people) |-> people[i].tax]), Whole(data.tax))
     /\ Same(Sum([i \in 1..Len(people) |-> people[i].tip]), Whole(data.tip))

FullSplit(data, store) == FullyAssigned(data, store) => SumsToReceipt(data, store)

FullSplitEverywhere ==
  \A data \in Receipts : \A store \in Stores : FullSplit(data, store)

\* C25: when every item of the receipt has at least one assignee and
\* receipt.subtotal equals the sum of the item prices and is above 0, the
\* persons' subtotals sum to receipt.subtotal, their taxes to receipt.tax and
\* their tips to receipt.tip: for the loaded receipt and the store, and for
\* every receipt and store of the data model.
C25_FullSplit ==
  Settled => /\ FullSplit(receiptData[1], assignments)
             /\ FullSplitEverywhere

\* Both items of the scenario's receipt are assigned, the Fries shared, and
\* the two people's taxes are 130 and 30 of 160.
C25_Witness ==
  /\ receiptData = Some(ScenarioReceipt)
  /\ chatCalls = <<>>
  /\ FullyAssigned(receiptData[1], assignments)
  /\ LET people == summary(receiptData[1], assignments).peopleList
     IN /\ Len(people) = 2
        /\ people[1].tax = Whole(130)
        /\ people[2].tax = Whole(30)

\* A file selection starts an extraction: one more call is in flight.
ExtractionStarts == ParseCallCount' > ParseCallCount

\* The continuation of a resolved extraction runs and loads its receipt.
ExtractionLoads == parseCalls'.resolved < parseCalls.resolved

\* The session the user works on is replaced by a late extraction result.
SessionOverwritten == receiptData # Null /\ ExtractionLoads

\* C24: receipt extraction is single-flight: while an extraction is in flight
\* (isParsing true) no file selection, by the picker or by drag-and-drop,
\* starts a second one, and so no extraction result ever arrives over a
\* receipt, store and transcript that are already loaded.
C24_ExtractionSingleFlight ==
  /\ [][(isParsing /\ ParseCallCount > 0) => ~ExtractionStarts]_vars
  /\ [][~SessionOverwritten]_vars

\* The message is one the assistant appends: a reply or the apology.
AssistantMsg(m) == m = ApologyMsg \/ \E r \in ChatResponse : m = ReplyMsg(r)

\* The step ends the command of call i: isProcessing is cleared and exactly
\* one message, an assistant's, is appended, right after the command's user
\* message.
EndsCommand ==
  /\ isProcessing' = FALSE
  /\ Len(messages') = Len(messages) + 1
  /\ SubSeq(messages', 1, Len(messages)) = messages
  /\ AssistantMsg(messages'[Len(messages')])
  /\ Len(messages) >= 1
  /\ messages[Len(messages)] = UserMsg

\* isProcessing is true exactly while a command-interpretation call is in flight.
ProcessingWhileInFlight == isProcessing <=> Len(chatCalls) > 0

\* Every continuation of a command-interpretation call ends its command.
CommandsEnd ==
  [][\A i \in 1..Len(chatCalls) : ChatContinues(i) => EndsCommand]_vars

\* C26: isProcessing is true exactly while a command-interpretation call is in
\* flight, and every accepted command eventually ends, the call being
\* answered, with isProcessing false and exactly one assistant message (the
\* reply or the apology) appended after its user message.
C26_CommandLifecycle ==
  /\ []ProcessingWhileInFlight
  /\ CommandsEnd
  /\ isProcessing ~> ~isProcessing

\* The step starts an audit.
AuditStarts == Len(auditCalls') = Len(auditCalls) + 1

\* The step settles audit call i: the audit model has answered.
AuditSettles(i) ==
  /\ auditCalls[i].status = "pending"
  /\ Len(auditCalls') = Len(auditCalls)
  /\ auditCalls'[i].status # "pending"

\* The step runs the continuation of audit call i.
AuditContinues(i) ==
  /\ auditCalls[i].status # "pending"
  /\ auditCalls' = Remove(auditCalls, i)

\* The step belongs to an audit: its start, the answer of the audit model or
\* its continuation.
AuditStep ==
  \/ AuditStarts
  \/ \E i \in 1..Len(auditCalls) : AuditSettles(i) \/ AuditContinues(i)

\* C23: no step of an audit, from the click to the continuation of a call
\* that succeeded or failed, changes the receipt or Assignments; and the
\* continuation of a failed audit call puts the fixed fallback message in the
\* place of the report and sets isAuditing to false.
C23_AuditAdvisory ==
  /\ [][AuditStep => (receiptData' = receiptData /\ assignments' = assignments)]_vars
  /\ [][\A i \in 1..Len(auditCalls) :
          (auditCalls[i].status = "rejected" /\ AuditContinues(i))
            => /\ auditResult' # Null
               /\ auditResult'[1].text = AuditFallback
               /\ isAuditing' = FALSE]_vars

\* The audit of a split in which somebody is assigned has failed: the modal
\* shows the fallback message, the receipt and the store are still there.
C23_Witness ==
  /\ receiptData # Null
  /\ \E k \in DOMAIN assignments : assignments[k] # <<>>
  /\ auditCalls = <<>>
  /\ ~isAuditing
  /\ showAuditModal
  /\ auditResult = Some([text |-> AuditFallback, of |-> 1])

\* C27: isAuditing is true whenever an audit call is in flight, and once no
\* audit call is in flight the audit report on display is the result, or the
\* fallback, of the audit started last, also when the modal has been closed
\* and a second audit started while the first was in flight.
C27_LatestAuditShown ==
  /\ auditCalls # <<>> => isAuditing
  /\ (auditCalls = <<>> /\ auditsStarted > 0)
       => (auditResult # Null /\ auditResult[1].of = auditsStarted)

====
